---- MODULE Spec2Model ----
(***************************************************************************)
(* Model of the pagination crawler (src/scraper.py, scrape_webpage) and of *)
(* the pagination-URL recovery tool (src/pagination_detector.py).          *)
(*                                                                         *)
(* Python strings are modelled as sequences of one-character strings, so   *)
(* that startswith, strip, lower, the substring test, re.search and        *)
(* urljoin are computed character by character.                            *)
(***************************************************************************)
EXTENDS Integers, Sequences, FiniteSets, TLC

(***************************************************************************)
(* Characters and string helpers                                           *)
(***************************************************************************)
LowerLetters == <<"a","b","c","d","e","f","g","h","i","j","k","l","m","n","o","p","q","r","s","t","u","v","w","x","y","z">>
UpperLetters == <<"A","B","C","D","E","F","G","H","I","J","K","L","M","N","O","P","Q","R","S","T","U","V","W","X","Y","Z">>
Range(s) == {s[i] : i \in 1..Len(s)}
Digits == Range(<<"0","1","2","3","4","5","6","7","8","9">>)
Letters == Range(LowerLetters) \cup Range(UpperLetters)
\* \w of the re module (ASCII part): letters, digits and the underscore
WordChars == Letters \cup Digits \cup {"_"}
\* characters str.strip() removes
Whitespace == {" ", "\t", "\n", "\r"}

\* the only element of a one-element set
The(S) == CHOOSE x \in S : TRUE

\* str.lower() on one character
ToLower ==
  [c \in Range(UpperLetters) |->
     LowerLetters[CHOOSE i \in 1..Len(UpperLetters) : UpperLetters[i] = c]]
LowerChar(c) == IF c \in DOMAIN ToLower THEN ToLower[c] ELSE c

\* str.lower()
Lower(s) == [i \in 1..Len(s) |-> LowerChar(s[i])]

\* s[i:] and s[:i] with Python's 0-based slice bounds
From(s, i) == SubSeq(s, i + 1, Len(s))
UpTo(s, i) == SubSeq(s, 1, i)

\* str.startswith(p)
StartsWith(s, p) == Len(s) >= Len(p) /\ SubSeq(s, 1, Len(p)) = p

\* the Python test  p in s  on strings
Contains(s, p) ==
  \E i \in 0..(Len(s) - Len(p)) : SubSeq(s, i + 1, i + Len(p)) = p

\* str.find for a set of characters: the 0-based index of the first
\* character of s that lies in cs, or -1
Find(s, cs) ==
  IF \E i \in 1..Len(s) : s[i] \in cs
    THEN (CHOOSE i \in 1..Len(s) :
            s[i] \in cs /\ \A j \in 1..(i - 1) : s[j] \notin cs) - 1
    ELSE -1

\* str.strip()
Strip(s) ==
  IF \A i \in 1..Len(s) : s[i] \in Whitespace THEN <<>>
  ELSE SubSeq(s,
         CHOOSE i \in 1..Len(s) :
           s[i] \notin Whitespace /\ \A j \in 1..(i - 1) : s[j] \in Whitespace,
         CHOOSE i \in 1..Len(s) :
           s[i] \notin Whitespace
           /\ \A j \in (i + 1)..Len(s) : s[j] \in Whitespace)

\* str.split(c): the segments between the occurrences of c
Split(s, c) ==
  LET P == {i \in 1..Len(s) : s[i] = c}
      \* the position of the k-th occurrence of c; 0 and Len(s)+1 at the ends
      Delim(k) ==
        IF k = 0 THEN 0
        ELSE IF k > Cardinality(P) THEN Len(s) + 1
        ELSE CHOOSE p \in P : Cardinality({q \in P : q < p}) = k - 1
  IN [k \in 1..(Cardinality(P) + 1) |->
        SubSeq(s, Delim(k - 1) + 1, Delim(k) - 1)]

\* c.join(segs)
RECURSIVE Join(_, _)
Join(segs, c) ==
  IF segs = <<>> THEN <<>>
  ELSE IF Len(segs) = 1 THEN segs[1]
  ELSE The({ segs[1] \o <<c>> \o Join(rest, c) : rest \in {Tail(segs)} })

(***************************************************************************)
(* urllib.parse: urlparse and urljoin, as called at scraper.py:100 and     *)
(* pagination_detector.py:118-126.  The ';params' part of a path is not    *)
(* modelled: no input of the model holds a ';'.                            *)
(***************************************************************************)
SchemeChars == Letters \cup Digits \cup {"+", "-", "."}
\* urllib.parse.uses_relative / uses_netloc (the schemes the inputs use)
UsesRelative == {<<>>, <<"h","t","t","p">>, <<"h","t","t","p","s">>, <<"f","t","p">>, <<"f","i","l","e">>}
UsesNetloc == {<<>>, <<"h","t","t","p">>, <<"h","t","t","p","s">>, <<"f","t","p">>, <<"f","i","l","e">>}

\* urlsplit: the scheme before the first ':' (lowered), or the default
SplitScheme(u, dflt) ==
  LET c == Find(u, {":"}) IN
  IF c > 0 /\ u[1] \in Letters /\ \A i \in 1..c : u[i] \in SchemeChars
    THEN [scheme |-> Lower(UpTo(u, c)), rest |-> From(u, c + 1)]
    ELSE [scheme |-> dflt, rest |-> u]

\* urlsplit: the netloc after a leading '//' up to the next '/', '?' or '#'
SplitNetloc(r) ==
  IF ~StartsWith(r, <<"/","/">>) THEN [netloc |-> <<>>, rest |-> r]
  ELSE LET e == Find(From(r, 2), {"/", "?", "#"}) IN
       IF e = -1 THEN [netloc |-> From(r, 2), rest |-> <<>>]
       ELSE [netloc |-> SubSeq(r, 3, e + 2), rest |-> From(r, e + 2)]

\* urlsplit: the fragment after the first '#'
SplitFragment(r) ==
  LET h == Find(r, {"#"}) IN
  IF h = -1 THEN [fragment |-> <<>>, rest |-> r]
  ELSE [fragment |-> From(r, h + 1), rest |-> UpTo(r, h)]

\* urlsplit: the query after the first '?'
SplitQuery(r) ==
  LET q == Find(r, {"?"}) IN
  IF q = -1 THEN [query |-> <<>>, path |-> r]
  ELSE [query |-> From(r, q + 1), path |-> UpTo(r, q)]

\* urlparse(u, default scheme): scheme, netloc, path, query, fragment; bad is
\* the ValueError urlsplit raises for a netloc with an unmatched bracket
UrlParse(u, dflt) ==
  The({ The({ The({ The({
    [scheme |-> a.scheme, netloc |-> b.netloc, path |-> d.path,
     query |-> d.query, fragment |-> c.fragment,
     bad |-> ("[" \in Range(b.netloc)) # ("]" \in Range(b.netloc))]
    : d \in {SplitQuery(c.rest)} })
    : c \in {SplitFragment(b.rest)} })
    : b \in {SplitNetloc(a.rest)} })
    : a \in {SplitScheme(u, dflt)} })

\* urlunparse
UrlUnparse(scheme, netloc, path, query, fragment) ==
  (IF scheme # <<>> THEN scheme \o <<":">> ELSE <<>>)
  \o (IF netloc # <<>>
         \/ (scheme # <<>> /\ scheme \in UsesNetloc
             /\ ~StartsWith(path, <<"/","/">>))
        THEN <<"/","/">> \o netloc
             \o (IF path # <<>> /\ Head(path) # "/" THEN <<"/">> ELSE <<>>)
        ELSE <<>>)
  \o path
  \o (IF query # <<>> THEN <<"?">> \o query ELSE <<>>)
  \o (IF fragment # <<>> THEN <<"#">> \o fragment ELSE <<>>)

\* the segments[1:-1] = filter(None, segments[1:-1]) step of urljoin
DropEmptyInner(segs) ==
  IF Len(segs) <= 2 THEN segs
  ELSE <<segs[1]>>
       \o SelectSeq(SubSeq(segs, 2, Len(segs) - 1), LAMBDA x : x # <<>>)
       \o <<segs[Len(segs)]>>

\* the dot-segment loop of urljoin
RECURSIVE Resolve(_, _)
Resolve(segs, acc) ==
  IF segs = <<>> THEN acc
  ELSE The({ Resolve(rest, a) :
             rest \in {Tail(segs)},
             a \in { IF Head(segs) = <<".",".">>
                       THEN (IF acc = <<>> THEN acc
                             ELSE SubSeq(acc, 1, Len(acc) - 1))
                     ELSE IF Head(segs) = <<".">> THEN acc
                     ELSE Append(acc, Head(segs)) } })

\* the path merge of urljoin: the base path bp and the reference path p
MergePaths(bp, p) ==
  LET base_parts == Split(bp, "/")
      segments ==
        IF Head(p) = "/" THEN Split(p, "/")
        ELSE DropEmptyInner(
               (IF base_parts[Len(base_parts)] # <<>>
                  THEN SubSeq(base_parts, 1, Len(base_parts) - 1)
                  ELSE base_parts) \o Split(p, "/"))
  IN The({ The({ IF joined = <<>> THEN <<"/">> ELSE joined
                 : joined \in { Join(IF segs[Len(segs)] \in {<<".">>, <<".",".">>}
                                       THEN Append(res, <<>>) ELSE res, "/") } })
           : segs \in {segments}, res \in {Resolve(segments, <<>>)} })

\* urljoin on the parsed base b and the parsed reference u
JoinParsed(b, u, url) ==
  IF u.scheme # b.scheme \/ u.scheme \notin UsesRelative THEN url
  ELSE IF u.scheme \in UsesNetloc /\ u.netloc # <<>>
    THEN UrlUnparse(u.scheme, u.netloc, u.path, u.query, u.fragment)
  ELSE IF u.path = <<>>
    THEN UrlUnparse(u.scheme,
                    IF u.scheme \in UsesNetloc THEN b.netloc ELSE u.netloc,
                    b.path,
                    IF u.query = <<>> THEN b.query ELSE u.query,
                    u.fragment)
  ELSE UrlUnparse(u.scheme,
                  IF u.scheme \in UsesNetloc THEN b.netloc ELSE u.netloc,
                  MergePaths(b.path, u.path), u.query, u.fragment)

\* urljoin(base, url); the value is meaningful when UrlJoinRaises is false
UrlJoin(base, url) ==
  IF base = <<>> THEN url
  ELSE IF url = <<>> THEN base
  ELSE The({ The({ JoinParsed(b, u, url) : u \in {UrlParse(url, b.scheme)} })
             : b \in {UrlParse(base, <<>>)} })

\* urljoin raises ValueError when either argument has an unmatched bracket
\* in its netloc
UrlJoinRaises(base, url) ==
  /\ base # <<>>
  /\ url # <<>>
  /\ \E b \in {UrlParse(base, <<>>)} :
       b.bad \/ UrlParse(url, b.scheme).bad

(***************************************************************************)
(* scrape_webpage (src/scraper.py): inputs of the model                    *)
(***************************************************************************)
\* largest max_pages argument the model passes
MaxPagesBound == 3

\* Python's None: as the value of a string the model spells out character by
\* character, and as the value of a field the model keeps opaque
NoneText == <<"<None>">>
None == "None"

\* dict.get(key, default)
Get(d, key, default) == IF key \in DOMAIN d THEN d[key] ELSE default

EmptyDict == [k \in {} |-> k]

StartUrls == {<<"h","t","t","p","s",":","/","/","e","x","a","m","p","l","e",".","c","o","m","/","b","l","o","g","/">>, <<"h","t","t","p","s",":","/","/","e","x","a","m","p","l","e",".","c","o","m","/","n","e","w","s">>}

\* link dictionaries the fetch collaborator may report
LoadMoreButton == [href |-> <<"#">>, text |-> <<"L","o","a","d"," ","M","o","r","e">>, is_button |-> TRUE]
MoreLink == [href |-> <<"p","a","g","e","/","2">>, text |-> <<"m","o","r","e">>]
SelfLink == [href |-> <<>>, text |-> <<"S","h","o","w"," ","M","O","R","E">>, is_button |-> FALSE]
BackLink == [href |-> <<"h","t","t","p","s",":","/","/","e","x","a","m","p","l","e",".","c","o","m","/","b","l","o","g","/">>, text |-> <<"M","o","r","e"," ","p","o","s","t","s">>]
AboutLink == [href |-> <<"/","a","b","o","u","t">>, text |-> <<"A","b","o","u","t"," ","u","s">>]
NoTextLink == [href |-> <<"/","x">>, text |-> NoneText]
BadHrefLink == [href |-> <<"/","/","[","v","6","/","p","a","g","e","/","2">>, text |-> <<"m","o","r","e">>]

InternalLinkLists ==
  { <<>>, <<AboutLink>>, <<LoadMoreButton>>, <<AboutLink, MoreLink>>,
    <<MoreLink, LoadMoreButton>>, <<LoadMoreButton, MoreLink>>, <<SelfLink>>,
    <<BackLink>>, <<NoTextLink, MoreLink>>, <<MoreLink, NoTextLink>>,
    <<BadHrefLink>> }

\* the rest of a successful result: markdown, external links and media
PageBodies ==
  { [markdown |-> "md1",
     links |-> [external |-> <<"e1">>],
     media |-> [images |-> <<"i1", "i2">>, videos |-> <<"v1", "v2", "v3">>,
                audios |-> <<"a1", "a2", "a3", "a4">>]],
    [markdown |-> "md2",
     links |-> EmptyDict,
     media |-> [images |-> <<"i1">>]] }

WithInternal(links, internal) ==
  [k \in DOMAIN links \cup {"internal"} |->
     IF k = "internal" THEN internal ELSE links[k]]

\* what crawler.arun may return
SuccessResults ==
  { [success |-> TRUE, status_code |-> "200", error_message |-> None,
     markdown |-> b.markdown, links |-> WithInternal(b.links, l),
     media |-> b.media] : b \in PageBodies, l \in InternalLinkLists }
  \cup
  { [success |-> TRUE, status_code |-> "200", error_message |-> None,
     markdown |-> "md3", links |-> EmptyDict, media |-> EmptyDict] }
FailureResults ==
  { [success |-> FALSE, status_code |-> "503",
     error_message |-> "Service Unavailable",
     markdown |-> None, links |-> EmptyDict, media |-> EmptyDict],
    [success |-> FALSE, status_code |-> None,
     error_message |-> "net::ERR_NAME_NOT_RESOLVED",
     markdown |-> None, links |-> EmptyDict, media |-> EmptyDict] }
FetchResults == SuccessResults \cup FailureResults

NoResult == EmptyDict
NoReturn == EmptyDict

(***************************************************************************)
(* scrape_webpage: state                                                   *)
(***************************************************************************)
VARIABLES
  url, handle_pagination, max_pages,   \* the arguments
  pages_content, current_page, current_url, combined_stats,
  result,                              \* the last value of crawler.arun
  next_page_url, load_more_clicked,
  pc,                                  \* "call", "fetching", "sleeping", "done"
  ret,                                 \* the returned dict, NoReturn before
  fetched,                             \* history: the arun calls issued, in order,
                                       \*   each with its url and how it was chosen
  sleeps                               \* history: asyncio.sleep calls completed

crawlVars == <<url, handle_pagination, max_pages, pages_content, current_page,
               current_url, combined_stats, result, next_page_url,
               load_more_clicked, pc, ret, fetched, sleeps>>

(***************************************************************************)
(* get_pagination_urls (src/pagination_detector.py): state                 *)
(***************************************************************************)
VARIABLES
  output_dir,                  \* the argument
  file_exists, file_readable, file_text,   \* page_1.md in output_dir
  api_env,                     \* "key", "nokey" or "raises" (configure fails)
  content, base_url,           \* what read_first_page_content returned
  response,                    \* completion.text of the oracle call
  urls,                        \* the list urls of line 107 after the loop
  outcomes,                    \* LineOutcome, tabulated for the model's inputs
  log,                         \* the logging calls made, in order
  d_pc,                        \* "read", "check", "configure", "generate", "done"
  d_ret,                       \* the returned list
  escaped                      \* an exception left get_pagination_urls

detectVars == <<output_dir, file_exists, file_readable, file_text, api_env,
                content, base_url, response, urls, outcomes, log, d_pc, d_ret,
                escaped>>

vars == <<crawlVars, detectVars>>

\* the recovery tool is not running
DetectIdle ==
  /\ output_dir = <<>>
  /\ file_exists = FALSE
  /\ file_readable = FALSE
  /\ file_text = <<>>
  /\ api_env = "nokey"
  /\ content = NoneText
  /\ base_url = NoneText
  /\ response = NoneText
  /\ urls = <<>>
  /\ outcomes = <<>>
  /\ log = <<>>
  /\ d_pc = "off"
  /\ d_ret = <<>>
  /\ escaped = FALSE

StatKeys == {"total_internal_links", "total_external_links", "total_images",
             "total_videos", "total_audios"}

ZeroStats == [k \in StatKeys |-> 0]

\* lines 62-68: the statistics of one fetch result
PageStats(r) ==
  [total_internal_links |-> Len(Get(r.links, "internal", <<>>)),
   total_external_links |-> Len(Get(r.links, "external", <<>>)),
   total_images |-> Len(Get(r.media, "images", <<>>)),
   total_videos |-> Len(Get(r.media, "videos", <<>>)),
   total_audios |-> Len(Get(r.media, "audios", <<>>))]

\* AddStats with one counter assigned instead of added
AddStatsOverwrite(combined, stats) ==
  [k \in StatKeys |->
     IF k = "total_videos" THEN stats[k] ELSE combined[k] + stats[k]]

\* AddStats with = for +=
AddStatsAssign(combined, stats) == [k \in StatKeys |-> stats[k]]

\* lines 71-72: fold one page's statistics into the running total
AddStats(combined, stats) == [k \in StatKeys |-> combined[k] + stats[k]]

\* PageEntry with the page number taken before the first increment
PageEntryNumberedFromZero(u, r, n) ==
  [url |-> u, content |-> r.markdown, page_number |-> n - 1,
   statistics |-> PageStats(r)]

\* lines 75-80: the record appended for a page
PageEntry(u, r, n) ==
  [url |-> u, content |-> r.markdown, page_number |-> n,
   statistics |-> PageStats(r)]

\* StopAfterPage with > for >=
StopAfterPageOffByOne(hp, page, maxp) == ~hp \/ page > maxp

\* StopAfterPage without the handle_pagination test
StopAfterPageIgnoringFlag(hp, page, maxp) == page >= maxp

\* StopAfterPage with the limit reached one page early
StopAfterPageBeforeLimit(hp, page, maxp) == ~hp \/ page >= maxp - 1

\* line 82: the loop ends after this page
StopAfterPage(hp, page, maxp) == ~hp \/ page >= maxp

\* ScanLinks with a 'more' button anywhere in the list taken before a plain
\* 'more' hyperlink that precedes it
ScanLinksButtonFirst(links) ==
  LET IsMore(i) == Contains(Lower(Get(links[i], "text", <<>>)), <<"m","o","r","e">>)
      mores == { i \in 1..Len(links) : IsMore(i) }
      buttons == { i \in mores : Get(links[i], "is_button", FALSE) }
  IN
  IF \E i \in 1..Len(links) : Get(links[i], "text", <<>>) = NoneText
    THEN [kind |-> "raise"]
  ELSE IF buttons # {} THEN [kind |-> "button"]
  ELSE IF mores # {}
    THEN [kind |-> "link",
          href |-> Get(links[CHOOSE i \in mores : \A j \in mores : i <= j],
                       "href", <<>>)]
  ELSE [kind |-> "none"]

\* lines 89-101: the scan of the internal links.  The value is
\*   [kind |-> "none"], [kind |-> "button"], [kind |-> "link", href |-> h] or
\*   [kind |-> "raise"] (text is None: None has no method lower)
RECURSIVE ScanLinks(_)
ScanLinks(links) ==
  IF links = <<>> THEN [kind |-> "none"]
  ELSE
    LET link == Head(links)
        text == Get(link, "text", <<>>)
    IN
    IF text = NoneText THEN [kind |-> "raise"]
    ELSE IF Contains(Lower(text), <<"m","o","r","e">>)
      THEN IF Get(link, "is_button", FALSE)
             THEN [kind |-> "button"]
             ELSE [kind |-> "link", href |-> Get(link, "href", <<>>)]
    ELSE ScanLinks(Tail(links))

\* FetchFailed with the pages fetched so far added
FetchFailedWithPartialPages(r) ==
  [success |-> FALSE, error |-> r.error_message, status_code |-> r.status_code,
   pages |-> pages_content]

\* lines 55-59
FetchFailed(r) ==
  [success |-> FALSE, error |-> r.error_message, status_code |-> r.status_code]

\* Succeeded with the counter incremented once more before the return
SucceededAfterIncrement(pages, page, combined, r) ==
  [success |-> TRUE, pages |-> pages, total_pages |-> page + 1,
   combined_statistics |-> combined, status_code |-> r.status_code]

\* Succeeded with the counter of the next page after a load-more revisit
SucceededCountingNextPage(pages, page, combined, r) ==
  [success |-> TRUE, pages |-> pages,
   total_pages |-> IF load_more_clicked THEN page + 1 ELSE page,
   combined_statistics |-> combined, status_code |-> r.status_code]

\* lines 115-121
Succeeded(pages, page, combined, r) ==
  [success |-> TRUE, pages |-> pages, total_pages |-> page,
   combined_statistics |-> combined, status_code |-> r.status_code]

\* Raised with the pages fetched before the exception added
RaisedWithPartialPages(text) ==
  [success |-> FALSE, error |-> text, status_code |-> None,
   pages |-> pages_content]

\* lines 123-128
Raised(text) == [success |-> FALSE, error |-> text, status_code |-> None]

(***************************************************************************)
(* scrape_webpage: actions                                                 *)
(***************************************************************************)
Init ==
  /\ url \in StartUrls
  /\ handle_pagination \in BOOLEAN
  /\ max_pages \in -1..MaxPagesBound
  /\ pages_content = <<>>
  /\ current_page = 1
  /\ current_url = url
  /\ combined_stats = ZeroStats
  /\ result = NoResult
  /\ next_page_url = NoneText
  /\ load_more_clicked = FALSE
  /\ pc = "call"
  /\ ret = NoReturn
  /\ fetched = <<>>
  /\ sleeps = 0
  /\ DetectIdle

\* how the loop came to the fetch it is about to issue: the first iteration,
\* the load-more branch (lines 103-107) or the new URL of lines 111-113
Via ==
  IF fetched = <<>> THEN "start"
  ELSE IF load_more_clicked THEN "revisit"
  ELSE "advance"

\* line 39: crawler.arun(url=current_url, ...) is called and awaited
ArunCall ==
  /\ pc = "call"
  /\ pc' = "fetching"
  /\ fetched' = Append(fetched, [url |-> current_url, via |-> Via])
  /\ UNCHANGED <<url, handle_pagination, max_pages, pages_content,
                 current_page, current_url, combined_stats, result,
                 next_page_url, load_more_clicked, ret, sleeps>>
  /\ UNCHANGED detectVars

\* lines 54-59: the fetch reports success = False
ReturnFailure(r) ==
  /\ pc' = "done"
  /\ ret' = FetchFailed(r)
  /\ UNCHANGED <<pages_content, current_page, current_url, combined_stats,
                 next_page_url, load_more_clicked>>

\* lines 61-113 and 115-121: a successful fetch, up to the next await or return
ProcessPage(r) ==
  LET combined == AddStats(combined_stats, PageStats(r))
      pages == Append(pages_content, PageEntry(current_url, r, current_page))
      scan == ScanLinks(Get(r.links, "internal", <<>>))
  IN
  /\ combined_stats' = combined
  /\ pages_content' = pages
  /\ IF StopAfterPage(handle_pagination, current_page, max_pages)
       THEN /\ pc' = "done"
            /\ ret' = Succeeded(pages, current_page, combined, r)
            /\ UNCHANGED <<current_page, current_url, next_page_url,
                           load_more_clicked>>
     ELSE IF scan.kind = "raise"
       THEN /\ pc' = "done"
            /\ ret' = Raised("'NoneType' object has no attribute 'lower'")
            /\ next_page_url' = NoneText
            /\ load_more_clicked' = FALSE
            /\ UNCHANGED <<current_page, current_url>>
     ELSE IF scan.kind = "button"
       THEN /\ load_more_clicked' = TRUE
            /\ next_page_url' = NoneText
            /\ current_url' = url
            /\ current_page' = current_page + 1
            /\ pc' = "sleeping"
            /\ UNCHANGED ret
     ELSE IF scan.kind = "link"
       THEN IF UrlJoinRaises(current_url, scan.href)
              THEN /\ pc' = "done"
                   /\ ret' = Raised("Invalid IPv6 URL")
                   /\ next_page_url' = NoneText
                   /\ load_more_clicked' = FALSE
                   /\ UNCHANGED <<current_page, current_url>>
              ELSE /\ load_more_clicked' = FALSE
                   /\ next_page_url' = UrlJoin(current_url, scan.href)
                   /\ current_url' = UrlJoin(current_url, scan.href)
                   /\ current_page' = current_page + 1
                   /\ pc' = "sleeping"
                   /\ UNCHANGED ret
     ELSE /\ pc' = "done"
          /\ ret' = Succeeded(pages, current_page, combined, r)
          /\ next_page_url' = NoneText
          /\ load_more_clicked' = FALSE
          /\ UNCHANGED <<current_page, current_url>>

\* line 39 completes: arun returns r and the loop body runs to its next await
ArunReturn ==
  /\ pc = "fetching"
  /\ \E r \in FetchResults :
       /\ result' = r
       /\ IF r.success THEN ProcessPage(r) ELSE ReturnFailure(r)
  /\ UNCHANGED <<url, handle_pagination, max_pages, fetched, sleeps>>
  /\ UNCHANGED detectVars

\* line 39 raises: the except clause of lines 123-128 returns
ArunRaise ==
  /\ pc = "fetching"
  /\ pc' = "done"
  /\ ret' = Raised("Timeout 60000ms exceeded")
  /\ UNCHANGED <<url, handle_pagination, max_pages, pages_content,
                 current_page, current_url, combined_stats, result,
                 next_page_url, load_more_clicked, fetched, sleeps>>
  /\ UNCHANGED detectVars

\* SleepDone for a loop that starts over without awaiting asyncio.sleep
SleepSkipped ==
  /\ pc = "sleeping"
  /\ pc' = "call"
  /\ UNCHANGED <<url, handle_pagination, max_pages, pages_content,
                 current_page, current_url, combined_stats, result,
                 next_page_url, load_more_clicked, ret, fetched, sleeps>>
  /\ UNCHANGED detectVars

\* lines 106 and 113: asyncio.sleep(1.0) completes, the loop starts over
SleepDone ==
  /\ pc = "sleeping"
  /\ pc' = "call"
  /\ sleeps' = sleeps + 1
  /\ UNCHANGED <<url, handle_pagination, max_pages, pages_content,
                 current_page, current_url, combined_stats, result,
                 next_page_url, load_more_clicked, ret, fetched>>
  /\ UNCHANGED detectVars

Next == ArunCall \/ ArunReturn \/ ArunRaise \/ SleepDone

Spec == Init /\ [][Next]_vars

\* the event loop resumes the coroutine when the awaited arun or sleep
\* completes, and each of them completes: a crawl that can take a step
\* takes one
FairSpec == Spec /\ WF_vars(Next)

(***************************************************************************)
(* get_pagination_urls: inputs of the model                                *)
(***************************************************************************)
\* most lines the oracle's answer holds
MaxSuggestions == 3

OutputDirs == {<<"o","u","t","p","u","t","/","e","x","a","m","p","l","e",".","c","o","m","_","2","0","2","5">>, NoneText}

\* page_1.md as scraper.py writes it, without a URL line, and with an empty one
FileTexts ==
  { <<"#"," ","P","a","g","e"," ","1">> \o <<"\n">> \o <<"U","R","L",":"," ","h","t","t","p","s",":","/","/","e","x","a","m","p","l","e",".","c","o","m","/","b","l","o","g","/"," ">>
      \o <<"\n", "\n">> \o <<"r","e","a","d"," ","m","o","r","e">>,
    <<"#"," ","P","a","g","e"," ","1">> \o <<"\n">> \o <<"n","o"," ","a","d","d","r","e","s","s">>,
    <<"#"," ","P","a","g","e"," ","1">> \o <<"\n">> \o <<"U","R","L",":"," ">> \o <<"\n">> \o <<"t","e","x","t">> }

\* lines the oracle may answer with
Suggestions ==
  { <<"/","p","a","g","e","/","2","/">>,
    <<"h","t","t","p","s",":","/","/","e","x","a","m","p","l","e",".","c","o","m","/","p","a","g","e","/","2","/">>,
    <<"p","a","g","e","/","2">>,
    <<"h","t","t","p","s",":","/","/","e","x","a","m","p","l","e",".","c","o","m","/","a","b","o","u","t">>,
    <<"h","t","t","p","s",":","/","/","e","x","a","m","p","l","e",".","c","o","m","/","p","a","g","e","/","3","/">>,
    <<"h","t","t","p","s",":","/","/","e","x","a","m","p","l","e",".","c","o","m","/","?","c","u","r","s","o","r","=","a","b","c","1","2","3">>,
    <<"h","t","t","p","s",":","/","/","e","x","a","m","p","l","e",".","c","o","m","/","a","b","o","u","t","#","p","a","g","e","=","2">>,
    <<"h","t","t","p","s",":","/","/","p","a","g","e","-","2",".","h","t","m","l",".","e","x","a","m","p","l","e",".","c","o","m","/","a","b","o","u","t">>,
    <<"/","/","c","d","n",".","e","x","a","m","p","l","e",".","c","o","m","/","x">>,
    <<"h","t","t","p","f","o","o","/","p","a","g","e","/","2">>,
    <<"f","t","p",":","/","/","[","b","a","d","/","p","a","g","e","/","2">>,
    <<" "," ","/","B","l","o","g","?","O","f","f","s","e","t","=","2","0"," ">>,
    <<>> }

Answers ==
  UNION { [1..n -> Suggestions] : n \in 0..MaxSuggestions }

(***************************************************************************)
(* pagination_detector.py: the regular expressions of lines 55-69          *)
(***************************************************************************)
\* a pattern is a sequence of elements: a literal character, one character
\* of a class, one or more characters of a class, or an optional character
Lit(str) == [i \in 1..Len(str) |-> [kind |-> "lit", c |-> str[i]]]
OneOf(cs) == <<[kind |-> "one", set |-> cs]>>
Plus(cs) == <<[kind |-> "plus", set |-> cs]>>
Opt(c) == <<[kind |-> "opt", c |-> c]>>

pagination_patterns ==
  << Lit(<<"p","a","g","e","-">>) \o Plus(Digits) \o Lit(<<".","h","t","m","l">>),       \* page-\d+\.html
     Lit(<<"p","a","g","e","_","n","u","m","=">>) \o Plus(Digits),                    \* page_num=\d+
     Lit(<<"/","p","a","g","e","/">>) \o Plus(Digits) \o Opt("/"),           \* /page/\d+/?
     Lit(<<"p","a","g","e","=">>) \o Plus(Digits),                        \* page=\d+
     Lit(<<"/","p","/">>) \o Plus(Digits),                          \* /p/\d+
     OneOf({"?", "&"}) \o Lit(<<"p","=">>) \o Plus(Digits),      \* [?&]p=\d+
     Lit(<<"o","f","f","s","e","t","=">>) \o Plus(Digits),                      \* offset=\d+
     Lit(<<"s","t","a","r","t","=">>) \o Plus(Digits),                       \* start=\d+
     OneOf({"?", "&"}) \o Lit(<<"f","r","o","m","=">>) \o Plus(Digits),   \* [?&]from=\d+
     Lit(<<"/","l","o","a","d","-","m","o","r","e","/">>) \o Plus(Digits),                  \* /load-more/\d+
     Lit(<<"c","u","r","s","o","r","=">>) \o Plus(WordChars \cup {"-"}) >>      \* cursor=[\w-]+

\* the pattern pat, from its k-th element on, matches s at position i
\* (re.IGNORECASE: literals compare without case)
RECURSIVE MatchAt(_, _, _, _)
MatchAt(pat, k, s, i) ==
  IF k > Len(pat) THEN TRUE
  ELSE
    LET e == pat[k] IN
    IF e.kind = "lit"
      THEN /\ i <= Len(s)
           /\ LowerChar(s[i]) = LowerChar(e.c)
           /\ \E k2 \in {k + 1}, i2 \in {i + 1} : MatchAt(pat, k2, s, i2)
    ELSE IF e.kind = "one"
      THEN /\ i <= Len(s)
           /\ s[i] \in e.set
           /\ \E k2 \in {k + 1}, i2 \in {i + 1} : MatchAt(pat, k2, s, i2)
    ELSE IF e.kind = "plus"
      THEN \E n \in 1..(Len(s) - i + 1) :
             /\ \A j \in i..(i + n - 1) : s[j] \in e.set
             /\ \E k2 \in {k + 1}, i2 \in {i + n} : MatchAt(pat, k2, s, i2)
    ELSE \* "opt"
      \/ \E k2 \in {k + 1} : MatchAt(pat, k2, s, i)
      \/ /\ i <= Len(s)
         /\ LowerChar(s[i]) = LowerChar(e.c)
         /\ \E k2 \in {k + 1}, i2 \in {i + 1} : MatchAt(pat, k2, s, i2)

\* re.search(pattern, s, re.IGNORECASE) finds a match
Search(pat, s) == \E i \in 1..(Len(s) + 1) : MatchAt(pat, 1, s, i)

\* the URL without its scheme, host and fragment: path and query as written
PathAndQuery(u) ==
  The({ p.path \o (IF p.query # <<>> THEN <<"?">> \o p.query ELSE <<>>)
        : p \in {UrlParse(u, <<>>)} })

\* MatchesPagination with the search limited to path and query
MatchesPaginationInPathOrQuery(u) ==
  \E p \in 1..Len(pagination_patterns) :
    Search(pagination_patterns[p], PathAndQuery(u))

\* line 131: any(re.search(pattern, url, re.IGNORECASE) for pattern in ...)
MatchesPagination(u) ==
  \E p \in 1..Len(pagination_patterns) : Search(pagination_patterns[p], u)

(***************************************************************************)
(* pagination_detector.py: the processing of the oracle's answer           *)
(***************************************************************************)
\* lines 116-128: the absolute URL of a suggested line
\*   [raises |-> TRUE] when urlparse or urljoin raises ValueError
NormalizeUrl(line, base) ==
  IF StartsWith(line, <<"h","t","t","p">>) THEN [raises |-> FALSE, url |-> line]
  ELSE The({
    IF parsed_base.bad THEN [raises |-> TRUE]
    ELSE IF StartsWith(line, <<"/","/">>)
      THEN [raises |-> FALSE, url |-> parsed_base.scheme \o <<":">> \o line]
    ELSE IF StartsWith(line, <<"/">>)
      THEN The({ IF UrlJoinRaises(base_domain, line) THEN [raises |-> TRUE]
                 ELSE [raises |-> FALSE, url |-> UrlJoin(base_domain, line)]
                 : base_domain \in
                     {parsed_base.scheme \o <<":","/","/">> \o parsed_base.netloc} })
    ELSE IF UrlJoinRaises(base, line) THEN [raises |-> TRUE]
    ELSE [raises |-> FALSE, url |-> UrlJoin(base, line)]
    : parsed_base \in {UrlParse(base, <<>>)} })

\* CaughtBy without the try of detect_pagination_elements (lines 50, 146)
CaughtByWithoutOuterTry(site) ==
  CASE site = "join" -> "get_pagination_urls"
    [] site = "open" -> "read_first_page_content"
    [] site = "configure" -> "configure_gemini_api"
    [] site = "generate" -> "uncaught"
    [] site = "normalize" -> "loop"

\* CaughtBy without the try of the loop body (lines 113, 134)
CaughtByWithoutLoopTry(site) ==
  CASE site = "join" -> "get_pagination_urls"
    [] site = "open" -> "read_first_page_content"
    [] site = "configure" -> "configure_gemini_api"
    [] site = "generate" -> "detect_pagination_elements"
    [] site = "normalize" -> "detect_pagination_elements"

\* the try/except structure: the except clause that catches an exception
\* raised at a site
\*   "join"      lines 30-31, os.path.join / os.path.exists
\*   "open"      lines 36-43, inside the try of read_first_page_content
\*   "configure" lines 16-22, inside the try of configure_gemini_api
\*   "generate"  lines 94-104, inside the try of detect_pagination_elements
\*   "normalize" lines 116-132, inside the try of the loop body
CaughtBy(site) ==
  CASE site = "join" -> "get_pagination_urls"            \* line 159
    [] site = "open" -> "read_first_page_content"        \* line 44
    [] site = "configure" -> "configure_gemini_api"      \* line 24
    [] site = "generate" -> "detect_pagination_elements" \* line 146
    [] site = "normalize" -> "loop"                      \* line 134

\* lines 113-132 for one stripped, non-empty line: the normalization raises,
\* or the URL matches a pattern and is kept, or it is dropped
LineOutcome(line, base) ==
  The({ IF n.raises THEN [kind |-> "raise"]
        ELSE IF MatchesPagination(n.url) THEN [kind |-> "keep", url |-> n.url]
        ELSE [kind |-> "drop", url |-> n.url]
        : n \in {NormalizeUrl(line, base)} })

\* LineOutcome of the lines and base URLs the model's inputs hold: the
\* variable outcomes holds this table, so that a line is evaluated once
KnownLines == {Strip(s) : s \in Suggestions} \ {<<>>}
KnownBases == {<<"h","t","t","p","s",":","/","/","e","x","a","m","p","l","e",".","c","o","m","/","b","l","o","g","/">>}
KnownOutcomes ==
  [p \in KnownLines \X KnownBases |-> LineOutcome(p[1], p[2])]
OutcomeOf(line, base) ==
  IF <<line, base>> \in DOMAIN outcomes
    THEN outcomes[<<line, base>>]
    ELSE LineOutcome(line, base)

\* lines 108-136: the loop over the lines of the answer, from line k on;
\* acc holds the urls appended and the warnings logged so far
RECURSIVE ProcessLines(_, _, _, _)
ProcessLines(lines, k, base, acc) ==
  IF k > Len(lines) \/ acc.aborted THEN acc
  ELSE The({ ProcessLines(lines, k2, base, acc2) :
    k2 \in {k + 1},
    acc2 \in {
      The({ IF line = <<>> THEN acc                          \* lines 110-111
            ELSE The({
              IF o.kind = "raise"
                THEN IF CaughtBy("normalize") = "loop"
                       THEN [acc EXCEPT !.log =
                               Append(@, [level |-> "warning",
                                          event |-> "invalid url",
                                          line |-> line])]
                       ELSE [acc EXCEPT !.aborted = TRUE]
              ELSE IF o.kind = "keep"
                THEN [acc EXCEPT !.urls = Append(@, o.url)]
              ELSE acc
              : o \in {OutcomeOf(line, base)} })
            : line \in {Strip(lines[k])} }) } })

\* line 139: list(dict.fromkeys(urls)), the keys in insertion order
RECURSIVE FromKeys(_, _, _)
FromKeys(us, k, keys) ==
  IF k > Len(us) THEN keys
  ELSE The({ FromKeys(us, k2, keys2) :
             k2 \in {k + 1},
             keys2 \in { IF us[k] \in Range(keys) THEN keys
                         ELSE Append(keys, us[k]) } })

\* UniqueUrls without the deduplication
UniqueUrlsKeepingRepeats(us) == us

UniqueUrls(us) == FromKeys(us, 1, <<>>)

\* str.replace(p, ''): s without the occurrences of p, found left to right
RECURSIVE RemoveAll(_, _)
RemoveAll(s, p) ==
  IF Len(s) < Len(p) THEN s
  ELSE IF StartsWith(s, p)
    THEN The({ RemoveAll(rest, p) : rest \in {From(s, Len(p))} })
  ELSE The({ <<s[1]>> \o RemoveAll(rest, p) : rest \in {Tail(s)} })

\* lines 39-43: the base URL of the first line that starts with 'URL: ', or
\* NoneText when no line does
RECURSIVE FindBaseUrl(_, _)
FindBaseUrl(lines, k) ==
  IF k > Len(lines) THEN NoneText
  ELSE IF StartsWith(lines[k], <<"U","R","L",":"," ">>)
    THEN Strip(RemoveAll(lines[k], <<"U","R","L",":"," ">>))
  ELSE The({ FindBaseUrl(lines, k2) : k2 \in {k + 1} })

(***************************************************************************)
(* get_pagination_urls: actions                                            *)
(***************************************************************************)
CrawlIdle ==
  /\ url = <<>>
  /\ handle_pagination = FALSE
  /\ max_pages = 0
  /\ pages_content = <<>>
  /\ current_page = 1
  /\ current_url = <<>>
  /\ combined_stats = ZeroStats
  /\ result = NoResult
  /\ next_page_url = NoneText
  /\ load_more_clicked = FALSE
  /\ pc = "off"
  /\ ret = NoReturn
  /\ fetched = <<>>
  /\ sleeps = 0

DetectInit ==
  /\ CrawlIdle
  /\ output_dir \in OutputDirs
  /\ file_exists \in BOOLEAN
  /\ file_readable \in BOOLEAN
  /\ file_text \in FileTexts
  /\ api_env \in {"key", "nokey", "raises"}
  /\ content = NoneText
  /\ base_url = NoneText
  /\ response = NoneText
  /\ urls = <<>>
  /\ outcomes = KnownOutcomes
  /\ log = <<>>
  /\ d_pc = "read"
  /\ d_ret = <<>>
  /\ escaped = FALSE

LogError(event) == Append(log, [level |-> "error", event |-> event])

\* an exception raised at a site of get_pagination_urls' call tree that no
\* inner except clause catches: lines 159-161 return [], anything else
\* leaves the function
Propagate(site) ==
  /\ d_pc' = "done"
  /\ IF CaughtBy(site) \in {"get_pagination_urls", "read_first_page_content",
                            "configure_gemini_api",
                            "detect_pagination_elements"}
       THEN /\ d_ret' = <<>>
            /\ escaped' = FALSE
            /\ log' = LogError(site)
       ELSE /\ d_ret' = <<>>
            /\ escaped' = TRUE
            /\ log' = log

\* line 153 with lines 28-46: read_first_page_content(output_dir)
ReadFirstPageContent ==
  /\ d_pc = "read"
  /\ IF output_dir = NoneText
       THEN \* os.path.join(None, ...) raises TypeError outside any inner try
            /\ Propagate("join")
            /\ UNCHANGED <<content, base_url>>
     ELSE IF ~file_exists
       THEN /\ log' = LogError("first page file not found")
            /\ content' = NoneText
            /\ base_url' = NoneText
            /\ d_pc' = "check"
            /\ UNCHANGED <<d_ret, escaped>>
     ELSE IF ~file_readable
       THEN \* open or read raises
            IF CaughtBy("open") = "read_first_page_content"
              THEN /\ log' = LogError("error reading first page content")
                   /\ content' = NoneText
                   /\ base_url' = NoneText
                   /\ d_pc' = "check"
                   /\ UNCHANGED <<d_ret, escaped>>
              ELSE /\ Propagate("open")
                   /\ UNCHANGED <<content, base_url>>
     ELSE \E b \in {FindBaseUrl(Split(file_text, "\n"), 1)} :
            /\ content' = IF b = NoneText THEN NoneText ELSE file_text
            /\ base_url' = b
            /\ d_pc' = "check"
            /\ UNCHANGED <<log, d_ret, escaped>>
  /\ UNCHANGED <<output_dir, file_exists, file_readable, file_text, api_env,
                 response, urls, outcomes>>
  /\ UNCHANGED crawlVars

\* the Python test  not x  for a string or None
Falsy(x) == x = NoneText \/ x = <<>>

\* lines 154-157: without content or base URL the answer is []
CheckFirstPage ==
  /\ d_pc = "check"
  /\ IF Falsy(content) \/ Falsy(base_url)
       THEN d_pc' = "done" /\ d_ret' = <<>>
       ELSE d_pc' = "configure" /\ UNCHANGED d_ret
  /\ UNCHANGED <<output_dir, file_exists, file_readable, file_text, api_env,
                 content, base_url, response, urls, outcomes, log, escaped>>
  /\ UNCHANGED crawlVars

\* lines 51-52 with lines 13-26: configure_gemini_api()
ConfigureGeminiApi ==
  /\ d_pc = "configure"
  /\ IF api_env = "key"
       THEN d_pc' = "generate" /\ UNCHANGED <<d_ret, log, escaped>>
     ELSE IF api_env = "nokey"
       THEN /\ log' = LogError("GEMINI_API_KEY not found")
            /\ d_pc' = "done"
            /\ d_ret' = <<>>
            /\ UNCHANGED escaped
     ELSE Propagate("configure")
  /\ UNCHANGED <<output_dir, file_exists, file_readable, file_text, api_env,
                 content, base_url, response, urls, outcomes>>
  /\ UNCHANGED crawlVars

\* lines 94-104 raise: the oracle call fails, or its answer has no text
GenerateContentFails ==
  /\ d_pc = "generate"
  /\ Propagate("generate")
  /\ UNCHANGED <<output_dir, file_exists, file_readable, file_text, api_env,
                 content, base_url, response, urls, outcomes>>
  /\ UNCHANGED crawlVars

\* lines 103-144: the oracle answers; its lines are normalized, filtered and
\* deduplicated, and the list is returned
GenerateContent ==
  /\ d_pc = "generate"
  /\ \E answer \in Answers :
       \E text \in {Join(answer, "\n")} :
         \E acc \in {ProcessLines(Split(Strip(text), "\n"), 1, base_url,
                                  [urls |-> <<>>, log |-> <<>>,
                                   aborted |-> FALSE])} :
           /\ response' = text
           /\ urls' = acc.urls
           /\ IF acc.aborted
                THEN /\ log' = Append(log \o acc.log,
                                      [level |-> "error", event |-> "normalize"])
                     /\ d_ret' = <<>>
                     /\ escaped' = (CaughtBy("generate")
                                      # "detect_pagination_elements")
                ELSE /\ d_ret' = UniqueUrls(acc.urls)
                     /\ log' = (log \o acc.log)
                          \o (IF acc.urls # <<>>
                                THEN <<[level |-> "info",
                                        event |-> "found pagination urls"]>>
                                ELSE <<>>)
                     /\ escaped' = FALSE
           /\ d_pc' = "done"
  /\ UNCHANGED <<output_dir, file_exists, file_readable, file_text, api_env,
                 content, base_url, outcomes>>
  /\ UNCHANGED crawlVars

DetectNext ==
  \/ ReadFirstPageContent
  \/ CheckFirstPage
  \/ ConfigureGeminiApi
  \/ GenerateContentFails
  \/ GenerateContent

SpecDetect == DetectInit /\ [][DetectNext]_vars

(***************************************************************************)
(* Properties of scrape_webpage                                            *)
(***************************************************************************)
FetchDidFail == result # NoResult /\ ~result.success
ReturnedSuccess == pc = "done" /\ ret.success

\* C1: when a fetch reports success = False the crawl is over at once: the
\* returned dict has success False with the error message and status code of
\* that fetch, it has no pages entry although k-1 pages were accumulated, and
\* the failing fetch is the last one issued.
C1_FetchFailureEndsCrawl ==
  FetchDidFail =>
    /\ pc = "done"
    /\ ret = [success |-> FALSE, error |-> result.error_message,
              status_code |-> result.status_code]
    /\ "pages" \notin DOMAIN ret
    /\ Len(fetched) = Len(pages_content) + 1

C1_Witness ==
  /\ FetchDidFail
  /\ pc = "done"
  /\ Len(pages_content) >= 1
  /\ ret.status_code = "503"

\* C2: every successful crawl reports total_pages equal to the number of
\* page records it returns.
C2_TotalPagesIsLen ==
  ReturnedSuccess => ret.total_pages = Len(ret.pages)

C2_Witness ==
  /\ ReturnedSuccess
  /\ load_more_clicked
  /\ max_pages >= 2
  /\ Len(ret.pages) = max_pages

\* C3: a URL fetched through the advance to a new URL differs from every URL
\* fetched before it in the same crawl.
C3_NoUrlFetchedTwiceAsNewPage ==
  \A i \in 1..Len(fetched) :
    fetched[i].via = "advance" =>
      \A j \in 1..(i - 1) : fetched[j].url # fetched[i].url

RECURSIVE SumField(_, _, _)
SumField(pages, k, n) ==
  IF n = 0 THEN 0 ELSE pages[n].statistics[k] + SumField(pages, k, n - 1)

\* C4: in every state, and in the returned dict of a successful crawl, the
\* combined statistics are the field-wise sum of the statistics of the page
\* records appended so far.
C4_CombinedIsSum ==
  /\ \A k \in StatKeys :
       combined_stats[k] = SumField(pages_content, k, Len(pages_content))
  /\ ReturnedSuccess =>
       \A k \in StatKeys :
         ret.combined_statistics[k] = SumField(ret.pages, k, Len(ret.pages))

C4_Witness ==
  /\ ReturnedSuccess
  /\ Len(ret.pages) >= 2
  /\ ret.pages[1].statistics # ret.pages[2].statistics
  /\ ret.combined_statistics.total_videos >= 3

\* C5: the i-th page record has page_number i, in the running list and in the
\* returned one, and a step only ever appends to the list: the records it
\* already holds stay as they are.
C5_PageNumbersContiguous ==
  /\ [](/\ \A i \in 1..Len(pages_content) : pages_content[i].page_number = i
        /\ ReturnedSuccess => ret.pages = pages_content)
  /\ [][/\ Len(pages_content') >= Len(pages_content)
        /\ SubSeq(pages_content', 1, Len(pages_content)) = pages_content]_vars

C5_Witness ==
  /\ Len(pages_content) >= 3
  /\ \E i, j \in 1..Len(fetched) :
       fetched[i].via = "revisit" /\ fetched[j].via = "advance"

\* C6: with pagination enabled and max_pages >= 1 no more than max_pages
\* fetches are issued, and with max_pages = 1 the finished crawl has issued
\* exactly one.
C6_AtMostMaxPagesFetches ==
  (handle_pagination /\ max_pages >= 1) =>
    /\ Len(fetched) <= max_pages
    /\ (max_pages = 1 /\ pc = "done") => Len(fetched) = 1

C6_Witness ==
  /\ handle_pagination
  /\ max_pages = 1
  /\ ReturnedSuccess
  /\ ScanLinks(Get(result.links, "internal", <<>>)).kind \in {"button", "link"}

\* C7: with pagination disabled at most one fetch is issued, and when it
\* succeeds the crawl returns exactly one page record and combined statistics
\* equal to the statistics of that page.
C7_SinglePageCrawl ==
  ~handle_pagination =>
    /\ Len(fetched) <= 1
    /\ (pc = "done" /\ result # NoResult /\ result.success) =>
         /\ Len(fetched) = 1
         /\ ret.success
         /\ Len(ret.pages) = 1
         /\ ret.combined_statistics = PageStats(result)
         /\ ret.combined_statistics = ret.pages[1].statistics

C7_Witness ==
  /\ ~handle_pagination
  /\ max_pages >= 2
  /\ ReturnedSuccess
  /\ ScanLinks(Get(result.links, "internal", <<>>)).kind = "link"
  /\ ret.combined_statistics.total_audios = 4

\* the fold of lines 71-72 over the statistics of the pages in the order perm
RECURSIVE FoldStats(_, _, _, _)
FoldStats(pages, perm, k, acc) ==
  IF k > Len(pages) THEN acc
  ELSE FoldStats(pages, perm, k + 1,
                 AddStats(acc, pages[perm[k]].statistics))

\* C12: folding the statistics of the pages into the total does not depend
\* on the order: every permutation of the stored pages, folded from the zero
\* total, gives the same five counters, those of combined_stats; two
\* snapshots commute and three associate.
C12_FoldOrderIndependent ==
  /\ \A perm \in Permutations(1..Len(pages_content)) :
       FoldStats(pages_content, perm, 1, ZeroStats) = combined_stats
  /\ \A i, j \in 1..Len(pages_content) :
       \E a \in {pages_content[i].statistics},
          b \in {pages_content[j].statistics} :
         /\ AddStats(a, b) = AddStats(b, a)
         /\ AddStats(AddStats(combined_stats, a), b)
              = AddStats(combined_stats, AddStats(a, b))

\* three pages with three different snapshots were folded
C12_Witness ==
  /\ Len(pages_content) = 3
  /\ \A i, j \in 1..3 :
       i # j => pages_content[i].statistics # pages_content[j].statistics
  /\ pages_content[1].statistics.total_videos = 3
  /\ pages_content[3].statistics.total_videos = 0
  /\ combined_stats.total_internal_links = 3

\* C13: a fetch issued through the load-more branch (the first 'more' link
\* of the page before is a button) requests the URL the fetch before it
\* requested, also when that URL was reached from the input URL through a
\* plain 'more' hyperlink.
C13_RevisitFetchesSameUrl ==
  \A i \in 2..Len(fetched) :
    fetched[i].via = "revisit" => fetched[i].url = fetched[i - 1].url

\* the positions of the internal links whose text contains 'more' in any case
MoreLinks(links) ==
  { i \in 1..Len(links) :
      /\ Get(links[i], "text", <<>>) # NoneText
      /\ Contains(Lower(Get(links[i], "text", <<>>)), <<"m","o","r","e">>) }

\* the scan of the links reads no text that is None before it stops
ScanCompletes(links) ==
  \A i \in 1..Len(links) :
    Get(links[i], "text", <<>>) = NoneText => \E j \in MoreLinks(links) : j < i

\* this step is the return of a successful fetch whose page is not the last
\* one the limits allow
PageScanned ==
  /\ pc = "fetching"
  /\ Len(pages_content') = Len(pages_content) + 1
  /\ handle_pagination
  /\ current_page < max_pages

EveryPageLoadsMore ==
  /\ fetched # <<>>
  /\ Len(pages_content) = Len(fetched)
  /\ \A i \in 2..Len(fetched) : fetched[i].via = "revisit"
  /\ result # NoResult
  /\ result.success
  /\ ScanLinks(Get(result.links, "internal", <<>>)).kind = "button"

\* C15: every crawl returns, whatever max_pages is and whatever the fetches
\* give; a crawl with pagination on and max_pages >= 1 whose every page
\* succeeds and shows a load-more button returns success after exactly
\* max_pages fetches, all of the input URL, with max_pages page records.
C15_CrawlTerminates ==
  /\ <>(pc = "done")
  /\ [](pc = "done" /\ handle_pagination /\ max_pages >= 1
          /\ EveryPageLoadsMore =>
            /\ Len(fetched) = max_pages
            /\ \A i \in 1..Len(fetched) : fetched[i].url = url
            /\ ret.success
            /\ Len(ret.pages) = max_pages
            /\ sleeps = max_pages - 1)

C15_Witness ==
  /\ pc = "done"
  /\ handle_pagination
  /\ max_pages = 3
  /\ EveryPageLoadsMore
  /\ Len(fetched) = 3
  /\ ret.success

\* the crawl returned success through line 82 after load-more revisits only:
\* every page but the last showed a load-more button, and max_pages stopped
\* the loop
LoadMoreExhausted ==
  /\ ReturnedSuccess
  /\ handle_pagination
  /\ max_pages >= 2
  /\ load_more_clicked
  /\ current_page >= max_pages
  /\ \A i \in 2..Len(fetched) : fetched[i].via = "revisit"

\* C16 as stated: the successful crawl that exits through the load-more
\* exhaustion path reports a total_pages one greater than the number of page
\* records it stored.
C16_TotalPagesOneGreater ==
  LoadMoreExhausted => ret.total_pages = Len(ret.pages) + 1

\* C16 as amended: no successful crawl reports a total_pages one greater
\* than the number of stored page records; the crawl that exits through the
\* load-more exhaustion path reports max_pages, the number of page records it
\* stored, because the page fetched after the increment is appended before
\* line 82 tests the counter.
C16_LoadMoreExhaustionCountsStored ==
  /\ ReturnedSuccess => ret.total_pages # Len(ret.pages) + 1
  /\ LoadMoreExhausted =>
       /\ ret.total_pages = max_pages
       /\ Len(ret.pages) = max_pages
       /\ ret.pages[max_pages].page_number = ret.total_pages

C16_Witness ==
  /\ LoadMoreExhausted
  /\ max_pages = 3
  /\ ret.total_pages = 3
  /\ Len(pages_content) = 3
  /\ sleeps = 2

\* the fetches that were started and have not completed
InFlight ==
  IF pc = "fetching" THEN 1 ELSE 0

\* the fetches that completed: with a page record, or with the failure or the
\* exception that ended the crawl
Completed ==
  Len(pages_content)
    + (IF pc = "done" /\ ~ret.success /\ Len(fetched) > Len(pages_content)
         THEN 1 ELSE 0)

\* C19: the fetches of a crawl are sequential and one delay apart: at most
\* one fetch is in flight; a fetch starts only when every fetch before it
\* has completed and its page record is appended; one sleep completes
\* between two consecutive fetches, after a load-more revisit and after an
\* advance alike; nothing is awaited after the last fetch.
C19_SequentialWithDelay ==
  /\ [](/\ Len(fetched) = Completed + InFlight
        /\ pc = "call" => sleeps = Len(fetched)
        /\ pc \in {"fetching", "sleeping", "done"} =>
             sleeps = Len(fetched) - 1
        /\ pc = "sleeping" => Len(pages_content) = Len(fetched))
  /\ [][ /\ Len(fetched') > Len(fetched) =>
              /\ Len(fetched') = Len(fetched) + 1
              /\ pc = "call"
              /\ Len(pages_content) = Len(fetched)
              /\ sleeps = Len(fetched)
              /\ \A i \in 1..Len(pages_content) :
                   pages_content[i].url = fetched[i].url
         /\ sleeps' > sleeps =>
              /\ sleeps' = sleeps + 1
              /\ pc = "sleeping"
              /\ pc' = "call"
         /\ pc = "done" => UNCHANGED <<pc, sleeps, fetched>> ]_vars

\* three fetches, the second after an advance and the third after a
\* load-more revisit, with two sleeps
C19_Witness ==
  /\ pc = "done"
  /\ Len(fetched) = 3
  /\ fetched[2].via = "advance"
  /\ fetched[3].via = "revisit"
  /\ sleeps = 2
  /\ Len(pages_content) = 3

\* the awaited arun raised: the last fetch left neither a result that
\* reports failure nor a page record
ArunRaised ==
  /\ pc = "done"
  /\ Len(fetched) > Len(pages_content)
  /\ ~FetchDidFail

\* a step of the loop body raised after the page was appended: the scan read
\* a text that is None, or urljoin rejected the href
LoopStepRaised ==
  /\ pc = "done"
  /\ Len(fetched) = Len(pages_content)
  /\ ~StopAfterPage(handle_pagination, current_page, max_pages)
  /\ \E scan \in {ScanLinks(Get(result.links, "internal", <<>>))} :
       \/ scan.kind = "raise"
       \/ scan.kind = "link" /\ UrlJoinRaises(current_url, scan.href)

\* str(e) of the exception that was raised
ExceptionText ==
  IF ArunRaised THEN "Timeout 60000ms exceeded"
  ELSE IF ScanLinks(Get(result.links, "internal", <<>>)).kind = "raise"
    THEN "'NoneType' object has no attribute 'lower'"
  ELSE "Invalid IPv6 URL"

\* C20: scrape_webpage lets no exception out: the call is over exactly when
\* it has returned a dict, and when arun or a step of the loop raises at
\* page k the dict is success False, the text of the exception as error and
\* status_code None, without a pages entry, whatever pages were accumulated.
C20_ExceptionBecomesFailure ==
  /\ pc = "done" <=> ret # NoReturn
  /\ ArunRaised \/ LoopStepRaised =>
       /\ ret = [success |-> FALSE, error |-> ExceptionText,
                 status_code |-> None]
       /\ DOMAIN ret = {"success", "error", "status_code"}

\* arun raised at page 3, after two pages were accumulated
C20_Witness ==
  /\ ArunRaised
  /\ Len(fetched) = 3
  /\ Len(pages_content) = 2
  /\ ret.error = "Timeout 60000ms exceeded"
  /\ ret.status_code = None

(***************************************************************************)
(* Properties of get_pagination_urls                                       *)
(***************************************************************************)
Returned == d_pc = "done"
OracleAnswered == d_pc = "done" /\ response # NoneText

\* the page-1 file holds a line that starts with 'URL: '
HasUrlLine == FindBaseUrl(Split(file_text, "\n"), 1) # NoneText

\* C8: get_pagination_urls lets no exception out, and it returns [] when the
\* page-1 file is absent or unreadable, when the file has no 'URL: ' line,
\* when the API key is missing or configuring fails, and when the oracle
\* call fails; a non-empty list is returned only after the file was read, a
\* base URL was extracted and the oracle answered.
C8_RecoveryNeverRaises ==
  /\ ~escaped
  /\ Returned =>
       /\ ( \/ output_dir = NoneText
            \/ ~file_exists
            \/ ~file_readable
            \/ ~HasUrlLine
            \/ api_env # "key"
            \/ response = NoneText ) => d_ret = <<>>
       /\ d_ret # <<>> =>
            /\ file_exists /\ file_readable
            /\ content = file_text
            /\ ~Falsy(base_url)
            /\ api_env = "key"
            /\ response # NoneText

C8_Witness ==
  /\ Returned
  /\ file_exists /\ file_readable /\ HasUrlLine /\ ~Falsy(base_url)
  /\ api_env = "key"
  /\ response = NoneText
  /\ d_ret = <<>>
  /\ log # <<>>

\* the index of the first occurrence of x in seq
FirstIndex(seq, x) ==
  CHOOSE i \in 1..Len(seq) : seq[i] = x /\ \A j \in 1..(i - 1) : seq[j] # x

\* C9: the returned list holds every kept normalized URL exactly once, in
\* the order of the first occurrences among the kept suggestions.
C9_DedupKeepsFirstSeenOrder ==
  OracleAnswered =>
    /\ Range(d_ret) = Range(urls)
    /\ \A i, j \in 1..Len(d_ret) : i # j => d_ret[i] # d_ret[j]
    /\ \A i, j \in 1..Len(d_ret) :
         i < j => FirstIndex(urls, d_ret[i]) < FirstIndex(urls, d_ret[j])

\* the answer /page/2/, page/2, https://example.com/page/2/ : the first and
\* the third line normalize to the same URL
C9_Witness ==
  /\ OracleAnswered
  /\ response = <<"/","p","a","g","e","/","2","/">> \o <<"\n">> \o <<"p","a","g","e","/","2">> \o <<"\n">>
                  \o <<"h","t","t","p","s",":","/","/","e","x","a","m","p","l","e",".","c","o","m","/","p","a","g","e","/","2","/">>
  /\ Len(urls) = 3
  /\ d_ret = <<<<"h","t","t","p","s",":","/","/","e","x","a","m","p","l","e",".","c","o","m","/","p","a","g","e","/","2","/">>,
               <<"h","t","t","p","s",":","/","/","e","x","a","m","p","l","e",".","c","o","m","/","b","l","o","g","/","p","a","g","e","/","2">>>>

\* the normalized URLs of the non-empty lines of the answer that normalize
\* without an exception
NormalizedSuggestions ==
  { o.url : o \in { o \in { OutcomeOf(l, base_url) :
                              l \in { Strip(l) : l \in Range(Split(
                                        Strip(response), "\n")) } \ {<<>>} } :
                     o.kind # "raise" } }

\* some pattern of the catalog matches somewhere in u
MatchesSomewhere(u) ==
  \E p \in 1..Len(pagination_patterns) : Search(pagination_patterns[p], u)

\* C10 as stated: a normalized suggestion is kept if and only if its path or
\* query matches a pattern of the catalog.
C10_KeptIffPathOrQueryMatches ==
  OracleAnswered =>
    \A u \in NormalizedSuggestions :
      (u \in Range(d_ret)) <=> MatchesPaginationInPathOrQuery(u)

\* C10 as amended: a normalized suggestion is kept if and only if some
\* pattern of the catalog matches somewhere in the whole normalized URL,
\* host and fragment included; https://example.com/about is discarded,
\* https://example.com/page/3/ and https://example.com/?cursor=abc123 are
\* kept, and so are the URLs whose only match is in the fragment or the host.
C10_KeptIffUrlMatches ==
  OracleAnswered =>
    /\ \A u \in NormalizedSuggestions :
         (u \in Range(d_ret)) <=> MatchesSomewhere(u)
    /\ <<"h","t","t","p","s",":","/","/","e","x","a","m","p","l","e",".","c","o","m","/","a","b","o","u","t">> \notin Range(d_ret)
    /\ \A u \in { <<"h","t","t","p","s",":","/","/","e","x","a","m","p","l","e",".","c","o","m","/","p","a","g","e","/","3","/">>,
                  <<"h","t","t","p","s",":","/","/","e","x","a","m","p","l","e",".","c","o","m","/","?","c","u","r","s","o","r","=","a","b","c","1","2","3">>,
                  <<"h","t","t","p","s",":","/","/","e","x","a","m","p","l","e",".","c","o","m","/","a","b","o","u","t","#","p","a","g","e","=","2">>,
                  <<"h","t","t","p","s",":","/","/","p","a","g","e","-","2",".","h","t","m","l",".","e","x","a","m","p","l","e",".","c","o","m","/","a","b","o","u","t">> } :
         u \in NormalizedSuggestions => u \in Range(d_ret)

C10_Witness ==
  /\ OracleAnswered
  /\ <<"h","t","t","p","s",":","/","/","e","x","a","m","p","l","e",".","c","o","m","/","a","b","o","u","t">> \in NormalizedSuggestions
  /\ <<"h","t","t","p","s",":","/","/","e","x","a","m","p","l","e",".","c","o","m","/","a","b","o","u","t","#","p","a","g","e","=","2">> \in NormalizedSuggestions
  /\ <<"h","t","t","p","s",":","/","/","e","x","a","m","p","l","e",".","c","o","m","/","?","c","u","r","s","o","r","=","a","b","c","1","2","3">> \in NormalizedSuggestions
  /\ d_ret = <<<<"h","t","t","p","s",":","/","/","e","x","a","m","p","l","e",".","c","o","m","/","a","b","o","u","t","#","p","a","g","e","=","2">>,
               <<"h","t","t","p","s",":","/","/","e","x","a","m","p","l","e",".","c","o","m","/","?","c","u","r","s","o","r","=","a","b","c","1","2","3">>>>

\* the stripped, non-empty lines of the oracle's answer
SuggestedLines ==
  { Strip(l) : l \in Range(Split(Strip(response), "\n")) } \ {<<>>}

\* a string that is an absolute URL: it has a scheme and a host
IsAbsoluteUrl(s) ==
  \E p \in {UrlParse(s, <<>>)} : ~p.bad /\ p.scheme # <<>> /\ p.netloc # <<>>

\* the absolute URL the four cases give for a suggested line
ResolvedByFourCases(line, base) ==
  IF IsAbsoluteUrl(line) THEN line
  ELSE The({
    IF StartsWith(line, <<"/","/">>) THEN b.scheme \o <<":">> \o line
    ELSE IF StartsWith(line, <<"/">>)
      THEN UrlJoin(b.scheme \o <<":","/","/">> \o b.netloc, line)
    ELSE UrlJoin(base, line)
    : b \in {UrlParse(base, <<>>)} })

\* C11 as stated: every suggested line that normalizes without an exception
\* becomes an absolute URL by four cases (an absolute URL is unchanged, a
\* //host line gets the scheme of the base URL, a /path line is resolved
\* against the origin of the base URL, any other line is resolved against the
\* base URL); with the base https://example.com/blog/ the lines /page/2/,
\* page/2 and //cdn.example.com/x give https://example.com/page/2/,
\* https://example.com/blog/page/2 and https://cdn.example.com/x, and a
\* relative line that begins with the letters http is resolved against the
\* base as well.
C11_NormalizedByFourCases ==
  OracleAnswered =>
    \A l \in SuggestedLines :
      \E o \in {OutcomeOf(l, base_url)} :
        o.kind # "raise" =>
          /\ o.url = ResolvedByFourCases(l, base_url)
          /\ IsAbsoluteUrl(o.url)
          /\ (l = <<"/","p","a","g","e","/","2","/">>) => o.url = <<"h","t","t","p","s",":","/","/","e","x","a","m","p","l","e",".","c","o","m","/","p","a","g","e","/","2","/">>
          /\ (l = <<"p","a","g","e","/","2">>) => o.url = <<"h","t","t","p","s",":","/","/","e","x","a","m","p","l","e",".","c","o","m","/","b","l","o","g","/","p","a","g","e","/","2">>
          /\ (l = <<"/","/","c","d","n",".","e","x","a","m","p","l","e",".","c","o","m","/","x">>)
               => o.url = <<"h","t","t","p","s",":","/","/","c","d","n",".","e","x","a","m","p","l","e",".","c","o","m","/","x">>
          /\ (l = <<"h","t","t","p","f","o","o","/","p","a","g","e","/","2">>)
               => o.url = <<"h","t","t","p","s",":","/","/","e","x","a","m","p","l","e",".","c","o","m","/","b","l","o","g","/","h","t","t","p","f","o","o","/","p","a","g","e","/","2">>

\* the stripped lines of the oracle's answer, in order
AnswerLines ==
  [i \in 1..Len(Split(Strip(response), "\n")) |->
     Strip(Split(Strip(response), "\n")[i])]

\* the positions of the answer's lines the filter of line 131 discards
Discarded ==
  { i \in 1..Len(AnswerLines) :
      /\ AnswerLines[i] # <<>>
      /\ OutcomeOf(AnswerLines[i], base_url).kind = "drop" }

\* the positions of the warnings the log holds about line l
WarningsAbout(l) ==
  { k \in 1..Len(log) : log[k].level = "warning" /\ log[k].line = l }

\* C17: every suggestion discarded because no pattern matches it leaves one
\* warning in the log and the pipeline goes on: the log holds as many
\* warnings about discarded suggestions as suggestions were discarded.
C17_DiscardLogsWarning ==
  OracleAnswered =>
    /\ ~escaped
    /\ \A i \in Discarded : WarningsAbout(AnswerLines[i]) # {}
    /\ Cardinality(UNION { WarningsAbout(AnswerLines[i]) : i \in Discarded })
         = Cardinality(Discarded)

\* the normalization or the validation of the line raises
Malformed(l) == l # <<>> /\ OutcomeOf(l, base_url).kind = "raise"
WellFormed(l) == ~Malformed(l)
Kept(l) == l # <<>> /\ OutcomeOf(l, base_url).kind = "keep"

\* C18: a line whose normalization raises is skipped alone: the list returned
\* is the list the pipeline returns for the answer without its malformed
\* lines, every well-formed matching line before and after a malformed one is
\* returned, in order, and each malformed line leaves one warning.
C18_MalformedSkippedAlone ==
  OracleAnswered =>
    LET clean == SelectSeq(AnswerLines, WellFormed)
        kept == SelectSeq(AnswerLines, Kept)
    IN
    /\ ~escaped
    /\ d_ret = UniqueUrls(ProcessLines(clean, 1, base_url,
                                       [urls |-> <<>>, log |-> <<>>,
                                        aborted |-> FALSE]).urls)
    /\ urls = [i \in 1..Len(kept) |-> OutcomeOf(kept[i], base_url).url]
    /\ Cardinality({ k \in 1..Len(log) : log[k].level = "warning" })
         = Len(SelectSeq(AnswerLines, Malformed))

\* a malformed line between two matching ones
C18_Witness ==
  /\ OracleAnswered
  /\ response = <<"/","p","a","g","e","/","2","/">> \o <<"\n">> \o <<"f","t","p",":","/","/","[","b","a","d","/","p","a","g","e","/","2">> \o <<"\n">>
                  \o <<"h","t","t","p","s",":","/","/","e","x","a","m","p","l","e",".","c","o","m","/","p","a","g","e","/","3","/">>
  /\ d_ret = <<<<"h","t","t","p","s",":","/","/","e","x","a","m","p","l","e",".","c","o","m","/","p","a","g","e","/","2","/">>, <<"h","t","t","p","s",":","/","/","e","x","a","m","p","l","e",".","c","o","m","/","p","a","g","e","/","3","/">>>>
  /\ log = <<[level |-> "warning", event |-> "invalid url",
              line |-> <<"f","t","p",":","/","/","[","b","a","d","/","p","a","g","e","/","2">>],
             [level |-> "info", event |-> "found pagination urls"]>>

====
